---- MODULE Spec2Model ----
(***************************************************************************)
(* Model of the pharmacy browser client: the Directory page                *)
(* (frontend/src/pages/Directory.jsx) with its filter criteria, the        *)
(* listing requests issued by the fetch effect, the responses that arrive  *)
(* in any order, the pagination buttons and the export; the session        *)
(* (AuthProvider, ProtectedRoute, Login, Layout); and the PharmacyDetail,  *)
(* Changes and Dashboard pages.                                            *)
(*                                                                         *)
(* A JavaScript string is the sequence of its characters.  An ASCII        *)
(* character is the one-character string; a character outside ASCII is the *)
(* string "U+" followed by the four hexadecimal digits of its code point,  *)
(* e.g. "U+00A0", so that it is the same value under every encoding of    *)
(* this file: "\u00a02" is <<"U+00A0", "2">>.  JavaScript numbers are      *)
(* records [nan, v] so that NaN (parseInt of a non-numeric string) is a    *)
(* value of the model.                                                     *)
(***************************************************************************)
EXTENDS Integers, Sequences, FiniteSets, TLC

\* Number of listing requests one behaviour issues (mount + criteria changes).
MaxRequests == 3

\* Largest total_pages the listing endpoint reports.
MaxTotalPages == 2

\* params.per_page of every listing request.
PerPage == 50

VARIABLES url, filters, data, loading, requests, mounted, lastOp

\* The session (AuthProvider), the router location, the Login form and the
\* window opened by the export button.
VARIABLES token, user, authLoading, bootCall, route, logins, form, opened

\* The pages next to the Directory: PharmacyDetail, Changes and Dashboard, each
\* with its component state and the calls it has made.
VARIABLES detailView, changes, dash

pageVars == <<detailView, changes, dash>>

\* The state outside the Directory component.
sessionVars == <<token, user, authLoading, bootCall, route, logins, form>>

vars == <<url, filters, data, loading, requests, mounted, lastOp,
          token, user, authLoading, bootCall, route, logins, form, opened,
          detailView, changes, dash>>

----------------------------------------------------------------------------
\* JavaScript values

EmptyStr == <<>>

CA == <<"C", "A">>

FalseStr == <<"f", "a", "l", "s", "e">>

\* A JavaScript number that is not NaN.
Num(n) == [nan |-> FALSE, v |-> n]

NaN == [nan |-> TRUE, v |-> 0]

\* x + k and x - k on JavaScript numbers: NaN is absorbing.
JSAdd(x, k) == IF x.nan THEN NaN ELSE Num(x.v + k)

\* x <= y, x >= y, x > y on JavaScript numbers: false when either is NaN.
JSLe(x, y) == ~x.nan /\ ~y.nan /\ x.v <= y.v

JSGe(x, y) == ~x.nan /\ ~y.nan /\ x.v >= y.v

JSGt(x, y) == ~x.nan /\ ~y.nan /\ x.v > y.v

\* Truthiness of a string: every non-empty string is truthy.
Truthy(s) == s # EmptyStr

DigitChars == <<"0", "1", "2", "3", "4", "5", "6", "7", "8", "9">>

IsDigit(c) == \E i \in 1..10 : DigitChars[i] = c

DigitVal(c) == (CHOOSE i \in 1..10 : DigitChars[i] = c) - 1

\* The characters of StrWhiteSpaceChar inside ASCII: space, tab, line feed,
\* carriage return, form feed and vertical tab (U+000B).
AsciiWhiteSpace == {" ", "\t", "\n", "\r", "\f", ""}

\* The characters of StrWhiteSpaceChar outside ASCII, each written as its
\* code point: no-break space, ogham space mark, en quad .. hair space,
\* line and paragraph separator, narrow no-break space, medium mathematical
\* space, ideographic space and byte order mark.
UnicodeWhiteSpace ==
    {"U+00A0", "U+1680", "U+2000", "U+2001", "U+2002", "U+2003", "U+2004",
     "U+2005", "U+2006", "U+2007", "U+2008", "U+2009", "U+200A", "U+2028",
     "U+2029", "U+202F", "U+205F", "U+3000", "U+FEFF"}

\* StrWhiteSpaceChar: WhiteSpace and LineTerminator of ECMAScript, the
\* characters parseInt and trim skip.
WhiteSpaceChars == AsciiWhiteSpace \cup UnicodeWhiteSpace

RECURSIVE SkipWs(_)
SkipWs(s) == IF s # <<>> /\ Head(s) \in WhiteSpaceChars THEN SkipWs(Tail(s)) ELSE s

RECURSIVE ParseDigits(_, _)
ParseDigits(s, acc) ==
    IF s # <<>> /\ IsDigit(Head(s))
    THEN ParseDigits(Tail(s), acc * 10 + DigitVal(Head(s)))
    ELSE acc

HexLower == <<"a", "b", "c", "d", "e", "f">>

HexUpper == <<"A", "B", "C", "D", "E", "F">>

IsHexDigit(c) == IsDigit(c) \/ \E i \in 1..6 : HexLower[i] = c \/ HexUpper[i] = c

HexVal(c) ==
    IF IsDigit(c) THEN DigitVal(c)
    ELSE 9 + (CHOOSE i \in 1..6 : HexLower[i] = c \/ HexUpper[i] = c)

RECURSIVE ParseHex(_, _)
ParseHex(s, acc) ==
    IF s # <<>> /\ IsHexDigit(Head(s))
    THEN ParseHex(Tail(s), acc * 16 + HexVal(Head(s)))
    ELSE acc

\* parseInt(s) without a radix: leading whitespace skipped, optional sign,
\* then after a 0x or 0X prefix the longest run of hexadecimal digits,
\* otherwise the longest run of decimal digits; NaN when there is no digit.
parseInt(s) ==
    LET t == SkipWs(s)
        signed == t # <<>> /\ Head(t) \in {"-", "+"}
        neg == t # <<>> /\ Head(t) = "-"
        u == IF signed THEN Tail(t) ELSE t
        hex == Len(u) >= 2 /\ u[1] = "0" /\ u[2] \in {"x", "X"}
        h == IF hex THEN SubSeq(u, 3, Len(u)) ELSE u
        n == IF hex THEN ParseHex(h, 0) ELSE ParseDigits(h, 0)
    IN  IF h = <<>> \/ (hex /\ ~IsHexDigit(Head(h))) \/ (~hex /\ ~IsDigit(Head(h)))
        THEN NaN
        ELSE Num(IF neg THEN 0 - n ELSE n)

\* String.prototype.trim over the characters of the model.
RECURSIVE TrimRight(_)
TrimRight(s) ==
    IF s # <<>> /\ s[Len(s)] \in WhiteSpaceChars
    THEN TrimRight(SubSeq(s, 1, Len(s) - 1))
    ELSE s

Trim(s) == TrimRight(SkipWs(s))

----------------------------------------------------------------------------
\* The shareable URL: a function from the parameters present to their values.

\* searchParams.get(k) || d
GetOr(u, k, d) == IF k \in DOMAIN u /\ Truthy(u[k]) THEN u[k] ELSE d

\* searchParams.get(k) !== 'false'
GetNotFalse(u, k) == ~(k \in DOMAIN u /\ u[k] = FalseStr)

\* useState initialiser of `filters`.
InitialFilters(u) ==
    [search         |-> GetOr(u, "search", EmptyStr),
     state          |-> GetOr(u, "state", EmptyStr),
     city           |-> GetOr(u, "city", EmptyStr),
     zip            |-> GetOr(u, "zip", EmptyStr),
     is_independent |-> GetNotFalse(u, "is_independent"),
     page           |-> parseInt(GetOr(u, "page", <<"1">>))]

\* useState initialiser of `data`.
InitialData == [data |-> <<>>, total |-> 0, page |-> Num(1), total_pages |-> 0]

----------------------------------------------------------------------------
\* The listing request built by fetchData.

\* ParamKeys with the search test written as `!== null`: an empty search text
\* is sent as an empty `search` parameter.
ParamKeys_SearchNotNull(f) ==
    {"search"} \cup
    (IF Truthy(f.state) THEN {"state"} ELSE {}) \cup
    (IF Truthy(f.city) THEN {"city"} ELSE {}) \cup
    (IF Truthy(f.zip) THEN {"zip"} ELSE {}) \cup
    (IF f.is_independent \in BOOLEAN THEN {"is_independent"} ELSE {}) \cup
    {"page", "per_page"}

\* The keys fetchData puts in `params`.  filters.is_independent is always a
\* boolean, so the test `!== null` always passes.
ParamKeys(f) ==
    (IF Truthy(f.search) THEN {"search"} ELSE {}) \cup
    (IF Truthy(f.state) THEN {"state"} ELSE {}) \cup
    (IF Truthy(f.city) THEN {"city"} ELSE {}) \cup
    (IF Truthy(f.zip) THEN {"zip"} ELSE {}) \cup
    (IF f.is_independent \in BOOLEAN THEN {"is_independent"} ELSE {}) \cup
    {"page", "per_page"}

BuildParams(f) ==
    [k \in ParamKeys(f) |-> IF k = "per_page" THEN Num(PerPage) ELSE f[k]]

\* A request in flight or resolved: the params snapshot, its status and, once
\* it succeeded, the response body.
NewRequest(f) == [params |-> BuildParams(f), status |-> "pending", res |-> InitialData]

----------------------------------------------------------------------------
\* The listing endpoint (GET /pharmacies).

MaxOf(a, b) == IF a >= b THEN a ELSE b

\* Bodies the endpoint can answer a request with: the page asked for, of a
\* collection of any size that has that page.  A page below 1 or NaN has no
\* successful answer.
ListSuccess(p) ==
    IF p.page.nan \/ p.page.v < 1
    THEN {}
    ELSE {[data        |-> IF tp = 0 THEN <<>> ELSE <<p>>,
           total       |-> tp * PerPage,
           page        |-> p.page,
           total_pages |-> tp] :
             tp \in {t \in 0..MaxTotalPages : p.page.v <= MaxOf(t, 1)}}

----------------------------------------------------------------------------
\* Inputs

\* The page parameters the Directory is explored from.
UrlPageVals == {<<"0">>, <<"x">>, <<"2">>}

Opt(k, vals) == {{}} \cup {{<<k, v>>} : v \in vals}

ToUrl(S) == [k \in {pr[1] : pr \in S} |-> (CHOOSE pr \in S : pr[1] = k)[2]]

Urls == {ToUrl(a) : a \in Opt("page", UrlPageVals)}

SearchVals == {EmptyStr, <<" ">>, <<"a">>}

StateVals == {EmptyStr, CA}

CityVals == {EmptyStr, <<"x">>}

ZipVals == {EmptyStr, <<"6">>}

FilterVals(key) ==
    CASE key = "search" -> SearchVals
      [] key = "state" -> StateVals
      [] key = "city" -> CityVals
      [] key = "zip" -> ZipVals
      [] key = "is_independent" -> BOOLEAN

FilterKeys == {"search", "state", "city", "zip", "is_independent"}

----------------------------------------------------------------------------
\* Operations

NoOp == [op |-> "init", key |-> "", req |-> 0]

\* localStorage.getItem('token') and `user` when there is none.
Null == "null"

\* A token persisted by an earlier visit, and the token the login endpoint
\* issues.
StoredToken == "T0"

IssuedToken == "T"

Identities == {"admin@pharma.local", "analyst@pharma.local"}

\* useState initialisers of Login: error '' and loading false.
InitialForm == [error |-> "", loading |-> FALSE]

\* No identity check started.
NoBootCall == [status |-> "none", res |-> Null]

\* No window opened by the last handler.
NoWindow == [open |-> FALSE, query |-> [k \in {} |-> <<>>]]

\* useState(null) of PharmacyDetail: no record.
NoPharmacy == [npi |-> Null]

\* useState initialisers of PharmacyDetail (not rendered, no :id yet), with
\* the calls of its effect.
InitialDetail ==
    [open     |-> FALSE,
     id       |-> Null,
     pharmacy |-> NoPharmacy,
     loading  |-> TRUE,
     calls    |-> <<>>]

\* useState initialisers of Changes, with the requests of its effect.
InitialChanges ==
    [open     |-> FALSE,
     data     |-> [data |-> <<>>, total |-> 0, page |-> 1, total_pages |-> 0],
     filter   |-> "",
     page     |-> 1,
     loading  |-> TRUE,
     requests |-> <<>>]

\* useState(null) of pipelineStatus: pipelineStatus?.status is undefined.
NoStatus == [status |-> Null]

\* useState initialisers of Dashboard, with the state of its load and the
\* trigger calls it has posted.
InitialDashboard ==
    [open           |-> FALSE,
     stats          |-> Null,
     pipelineStatus |-> NoStatus,
     loading        |-> TRUE,
     triggering     |-> FALSE,
     loads          |-> <<>>,
     triggers       |-> <<>>]

\* None of the other pages has been rendered.
PagesClosed ==
    /\ detailView = InitialDetail
    /\ changes = InitialChanges
    /\ dash = InitialDashboard

\* The Directory is explored inside an authenticated session, on its route.
SessionOpen ==
    /\ token = StoredToken
    /\ user \in Identities
    /\ user = "admin@pharma.local"
    /\ authLoading = FALSE
    /\ bootCall = [status |-> "ok", res |-> user]
    /\ route = "/directory"
    /\ logins = <<>>
    /\ form = InitialForm

InitOver(U) ==
    /\ url \in U
    /\ filters = InitialFilters(url)
    /\ data = InitialData
    /\ loading = FALSE
    /\ requests = <<>>
    /\ mounted = FALSE
    /\ lastOp = NoOp
    /\ SessionOpen
    /\ opened = NoWindow
    /\ PagesClosed

Init == InitOver(Urls)

\* fetchData whose requests in flight read the criteria as they are now.
FetchData_SharedParams(f) ==
    /\ loading' = TRUE
    /\ requests' = Append([i \in 1..Len(requests) |->
                             IF requests[i].status = "pending"
                             THEN [requests[i] EXCEPT !.params = BuildParams(f)]
                             ELSE requests[i]],
                          NewRequest(f))

\* fetchData up to its await: setLoading(true), build params, api.get.
FetchData(f) ==
    /\ loading' = TRUE
    /\ requests' = Append(requests, NewRequest(f))

\* First render: the effect on [fetchData] runs once.
Mount ==
    /\ ~mounted
    /\ mounted' = TRUE
    /\ FetchData(filters)
    /\ lastOp' = [op |-> "mount", key |-> "", req |-> Len(requests) + 1]
    /\ UNCHANGED <<url, filters, data, sessionVars, opened, pageVars>>

\* updateFilter without the page reset.
updateFilter_KeepPage(prev, key, value) == [prev EXCEPT ![key] = value]

\* setFilters(prev => ({ ...prev, [key]: value, page: 1 }))
updateFilter(prev, key, value) ==
    [[prev EXCEPT ![key] = value] EXCEPT !.page = Num(1)]

\* An input of the filter panel changes (onChange fires with a value other
\* than the one shown); the new filters re-create fetchData and the effect
\* runs it.
UpdateFilter(key, value) ==
    /\ mounted
    /\ Len(requests) < MaxRequests
    /\ value # filters[key]
    /\ filters' = updateFilter(filters, key, value)
    /\ FetchData(filters')
    /\ lastOp' = [op |-> "updateFilter", key |-> key, req |-> Len(requests) + 1]
    /\ UNCHANGED <<url, data, mounted, sessionVars, opened, pageVars>>

\* The pagination bar is rendered only when data.total_pages > 1.
PaginationShown == data.total_pages > 1

\* disabled={data.page <= 1}
PrevDisabled == JSLe(data.page, Num(1))

\* The next button disabled on data.page > data.total_pages.
NextDisabled_OffByOne == JSGt(data.page, Num(data.total_pages))

\* disabled={data.page >= data.total_pages}
NextDisabled == JSGe(data.page, Num(data.total_pages))

\* setFilters(f => ({ ...f, page: f.page - 1 }))
PrevPage ==
    /\ mounted
    /\ Len(requests) < MaxRequests
    /\ PaginationShown
    /\ ~PrevDisabled
    /\ filters' = [filters EXCEPT !.page = JSAdd(filters.page, -1)]
    /\ FetchData(filters')
    /\ lastOp' = [op |-> "prev", key |-> "page", req |-> Len(requests) + 1]
    /\ UNCHANGED <<url, data, mounted, sessionVars, opened, pageVars>>

\* setFilters(f => ({ ...f, page: f.page + 1 }))
NextPage ==
    /\ mounted
    /\ Len(requests) < MaxRequests
    /\ PaginationShown
    /\ ~NextDisabled
    /\ filters' = [filters EXCEPT !.page = JSAdd(filters.page, 1)]
    /\ FetchData(filters')
    /\ lastOp' = [op |-> "next", key |-> "page", req |-> Len(requests) + 1]
    /\ UNCHANGED <<url, data, mounted, sessionVars, opened, pageVars>>

\* A success handler that leaves the loading flag alone.
ResolveOk_KeepsLoading(i, r) ==
    /\ requests[i].status = "pending"
    /\ r \in ListSuccess(requests[i].params)
    /\ data' = r
    /\ requests' = [requests EXCEPT ![i].status = "ok", ![i].res = r]
    /\ lastOp' = [op |-> "ok", key |-> "", req |-> i]
    /\ UNCHANGED <<url, filters, loading, mounted, sessionVars, opened, pageVars>>

\* The await of request i returns: setData(res.data); setLoading(false).
ResolveOk(i, r) ==
    /\ requests[i].status = "pending"
    /\ r \in ListSuccess(requests[i].params)
    /\ data' = r
    /\ loading' = FALSE
    /\ requests' = [requests EXCEPT ![i].status = "ok", ![i].res = r]
    /\ lastOp' = [op |-> "ok", key |-> "", req |-> i]
    /\ UNCHANGED <<url, filters, mounted, sessionVars, opened, pageVars>>

\* A catch block that issues the request again with the current criteria.
ResolveFail_Retries(i) ==
    /\ requests[i].status = "pending"
    /\ IF Len(requests) < MaxRequests
       THEN /\ loading' = TRUE
            /\ requests' = Append([requests EXCEPT ![i].status = "failed"],
                                  NewRequest(filters))
       ELSE /\ loading' = FALSE
            /\ requests' = [requests EXCEPT ![i].status = "failed"]
    /\ lastOp' = [op |-> "fail", key |-> "", req |-> i]
    /\ UNCHANGED <<url, filters, data, mounted, sessionVars, opened, pageVars>>

\* The await of request i throws: console.error(e); setLoading(false).
ResolveFail(i) ==
    /\ requests[i].status = "pending"
    /\ loading' = FALSE
    /\ requests' = [requests EXCEPT ![i].status = "failed"]
    /\ lastOp' = [op |-> "fail", key |-> "", req |-> i]
    /\ UNCHANGED <<url, filters, data, mounted, sessionVars, opened, pageVars>>

Next ==
    \/ Mount
    \/ \E key \in FilterKeys : \E value \in FilterVals(key) : UpdateFilter(key, value)
    \/ PrevPage
    \/ NextPage
    \/ \E i \in 1..Len(requests) : \E r \in ListSuccess(requests[i].params) : ResolveOk(i, r)
    \/ \E i \in 1..Len(requests) : ResolveFail(i)

Spec == Init /\ [][Next]_vars

\* Some request in flight is answered.
Resolve ==
    \E i \in 1..Len(requests) :
        \/ \E r \in ListSuccess(requests[i].params) : ResolveOk(i, r)
        \/ ResolveFail(i)

\* The filter fields changed in the behaviours checked for liveness;
\* updateFilter treats every field alike.
LiveKeys == {"state", "is_independent"}

NextLive ==
    \/ Mount
    \/ \E key \in LiveKeys : \E value \in FilterVals(key) : UpdateFilter(key, value)
    \/ PrevPage
    \/ NextPage
    \/ Resolve

\* The Directory with the effect of the first render run and every request
\* answered in the end; the user may stop at any moment.
SpecLive == Init /\ [][NextLive]_vars /\ WF_vars(Mount) /\ WF_vars(Resolve)

----------------------------------------------------------------------------
\* The route elements next to the Directory: what mounting and unmounting
\* does to PharmacyDetail, Changes and Dashboard.  MapView has its own state
\* too; nothing outside that component reads it and it is not among the
\* variables.

\* Number of single-record calls one behaviour issues.
MaxDetailCalls == 3

\* Number of /changes requests one behaviour issues.
MaxChangeFetches == 3

\* Number of times one behaviour enters the Dashboard.
MaxDashLoads == 2

\* The effect on [id]: api.get(`/pharmacies/${id}`).
DetailFetch(d, id) ==
    [d EXCEPT !.id = id, !.calls = Append(d.calls, [id |-> id, status |-> "pending"])]

\* PharmacyDetail is rendered for the first time with :id = id.
DetailMounted(d, id) == DetailFetch([d EXCEPT !.open = TRUE], id)

\* PharmacyDetail goes away: the component state is discarded and the
\* answers of its calls reach no component.
DetailUnmounted(d) ==
    [InitialDetail EXCEPT !.calls =
        [i \in 1..Len(d.calls) |->
            IF d.calls[i].status = "pending"
            THEN [d.calls[i] EXCEPT !.status = "orphan"]
            ELSE d.calls[i]]]

\* const params = { page, per_page: 50 }; if (filter) params.change_type = filter
ChangesParams(page, filter) ==
    [k \in {"page", "per_page"} \cup (IF filter # "" THEN {"change_type"} ELSE {}) |->
        CASE k = "page" -> page
          [] k = "per_page" -> 50
          [] k = "change_type" -> filter]

\* The effect on [page, filter]: setLoading(true), build params, api.get.
ChangesFetch(c) ==
    [c EXCEPT !.loading = TRUE,
              !.requests = Append(c.requests,
                                  [params |-> ChangesParams(c.page, c.filter),
                                   status |-> "pending"])]

\* Changes is rendered for the first time: filter '', page 1, and the effect.
ChangesMounted(c) == ChangesFetch([c EXCEPT !.open = TRUE])

\* Changes goes away: the component state is discarded and the answers of
\* its requests reach no component.
ChangesUnmounted(c) ==
    [InitialChanges EXCEPT !.requests =
        [i \in 1..Len(c.requests) |->
            IF c.requests[i].status = "pending"
            THEN [c.requests[i] EXCEPT !.status = "orphan"]
            ELSE c.requests[i]]]

\* The calls of a Dashboard that is gone reach no component.
Orphaned(calls) == [i \in 1..Len(calls) |-> [calls[i] EXCEPT !.alive = FALSE]]

\* Dashboard is rendered for the first time: its effect starts
\* Promise.all([stats, status]).
DashboardMounted(d) ==
    [d EXCEPT !.open = TRUE,
              !.loads = Append(d.loads, [status |-> "pending", alive |-> TRUE])]

\* Dashboard goes away: its state is discarded, its calls go on.
DashboardUnmounted(d) ==
    [InitialDashboard EXCEPT !.loads = Orphaned(d.loads),
                             !.triggers = Orphaned(d.triggers)]

----------------------------------------------------------------------------
\* The session: AuthProvider, ProtectedRoute, Login and Layout.

\* Number of login calls one behaviour issues.
MaxLogins == 2

\* navItems of Layout: the NavLinks of the sidebar.
NavRoutes == {"/", "/directory", "/map", "/changes"}

\* The :id values of the location.
DetailIds == {"1003000126", "1003000134"}

\* `/pharmacy/${id}`
DetailPath(id) == "/pharmacy/" \o id

\* The locations <Route path="pharmacy/:id"> matches.
DetailRoutes == {DetailPath(id) : id \in DetailIds}

\* useParams().id at a location of DetailRoutes.
IdOf(r) == CHOOSE id \in DetailIds : DetailPath(id) = r

\* The locations of the application: a NavLink, a row click, the address
\* bar (a deep link or a reload) or the browser history leads to each.
Routes == {"/login"} \cup NavRoutes \cup DetailRoutes

\* err.response.data.detail of a failed login; "" when the error carries none
\* (no response at all, or a body without detail).
LoginDetails == {"", "Invalid credentials"}

\* ProtectedRoute that lets everybody in.
ProtectedRoute_AdmitsAll(u) == "children"

\* if (!user) return <Navigate to="/login" replace />; return children
ProtectedRoute(u) == IF u = Null THEN "redirect" ELSE "children"

\* What App renders for the given AuthProvider state and location.
ViewOf(l, u, r) ==
    IF l THEN "spinner"
    ELSE IF r = "/login" THEN "login"
    ELSE IF ProtectedRoute(u) = "children" THEN "protected"
    ELSE "redirect"

View == ViewOf(authLoading, user, route)

\* The location once <Navigate to="/login" replace /> has run.
Redirected(l, u, r) == IF ViewOf(l, u, r) = "redirect" THEN "/login" ELSE r

\* The Directory component goes away: its state is discarded and responses
\* to its requests no longer reach any component.
UnmountDirectory ==
    /\ mounted' = FALSE
    /\ filters' = InitialFilters(url)
    /\ data' = InitialData
    /\ loading' = FALSE
    /\ requests' = [i \in 1..Len(requests) |->
                      IF requests[i].status = "pending"
                      THEN [requests[i] EXCEPT !.status = "orphan"]
                      ELSE requests[i]]

KeepDirectory == UNCHANGED <<filters, data, loading, requests, mounted>>

\* The Directory route element is rendered for the first time: the component
\* mounts with its initial state and the effect of that render runs
\* fetchData.
MountDirectory ==
    /\ mounted' = TRUE
    /\ filters' = InitialFilters(url)
    /\ data' = InitialData
    /\ FetchData(InitialFilters(url))

\* What a render with AuthProvider state (l, u) at location r does to the
\* Directory: it is mounted when its route is shown and it was not, kept
\* when it was, and gone otherwise.
SyncDirectory(l, u, r) ==
    IF ViewOf(l, u, r) = "protected" /\ r = "/directory"
    THEN IF mounted THEN KeepDirectory ELSE MountDirectory
    ELSE UnmountDirectory

\* The route element of path p is rendered.
Shows(l, u, r, p) == ViewOf(l, u, r) = "protected" /\ r = p

\* PharmacyDetail would issue a call in a render at location r: it is not
\* mounted yet, or :id is another value than in the last render.
DetailCalls(l, u, r) ==
    /\ r \in DetailRoutes
    /\ Shows(l, u, r, r)
    /\ (~detailView.open \/ IdOf(r) # detailView.id)

\* What a render with AuthProvider state (l, u) at location r does to
\* PharmacyDetail: mounted with its call when its route is shown and it was
\* not, the effect run again when :id is another value, gone when the route
\* is not shown.
SyncDetail(l, u, r) ==
    detailView' =
        IF r \in DetailRoutes /\ Shows(l, u, r, r)
        THEN IF ~detailView.open THEN DetailMounted(detailView, IdOf(r))
             ELSE IF IdOf(r) # detailView.id THEN DetailFetch(detailView, IdOf(r))
             ELSE detailView
        ELSE IF detailView.open THEN DetailUnmounted(detailView)
        ELSE detailView

SyncChanges(l, u, r) ==
    changes' =
        IF Shows(l, u, r, "/changes")
        THEN IF changes.open THEN changes ELSE ChangesMounted(changes)
        ELSE IF changes.open THEN ChangesUnmounted(changes)
        ELSE changes

SyncDashboard(l, u, r) ==
    dash' =
        IF Shows(l, u, r, "/")
        THEN IF dash.open THEN dash ELSE DashboardMounted(dash)
        ELSE IF dash.open THEN DashboardUnmounted(dash)
        ELSE dash

\* One render of <Routes>: the element of the location is mounted, with the
\* effects of its first render, and the element shown before is unmounted.
SyncPages(l, u, r) ==
    /\ SyncDirectory(l, u, r)
    /\ SyncDetail(l, u, r)
    /\ SyncChanges(l, u, r)
    /\ SyncDashboard(l, u, r)

\* The calls the render would issue are within the bounds of the model.
Room(l, u, r) ==
    /\ (Shows(l, u, r, "/directory") /\ ~mounted) => Len(requests) < MaxRequests
    /\ DetailCalls(l, u, r) => Len(detailView.calls) < MaxDetailCalls
    /\ (Shows(l, u, r, "/changes") /\ ~changes.open)
          => Len(changes.requests) < MaxChangeFetches
    /\ (Shows(l, u, r, "/") /\ ~dash.open) => Len(dash.loads) < MaxDashLoads

\* Number of calls the pages issue on mounting in one behaviour of the
\* session.
MaxPageCalls == 3

PageCalls ==
    Len(requests) + Len(detailView.calls) + Len(changes.requests) + Len(dash.loads)

\* The call a page would issue in the render is within that bound.
PageRoom(l, u, r) ==
    (\/ Shows(l, u, r, "/directory") /\ ~mounted
     \/ DetailCalls(l, u, r)
     \/ Shows(l, u, r, "/changes") /\ ~changes.open
     \/ Shows(l, u, r, "/") /\ ~dash.open)
        => PageCalls < MaxPageCalls

\* The Login component goes away: its state is discarded and the login calls
\* it started outlive it.
OrphanLogins(ls) == [i \in 1..Len(ls) |-> [ls[i] EXCEPT !.formAlive = FALSE]]

\* The body of a login call that has not succeeded.
NoPayload == [access_token |-> Null, user |-> Null]

NewLogin == [status |-> "pending", data |-> NoPayload, detail |-> "", formAlive |-> TRUE]

InitAuth ==
    /\ url = ToUrl({})
    /\ filters = InitialFilters(url)
    /\ data = InitialData
    /\ loading = FALSE
    /\ requests = <<>>
    /\ mounted = FALSE
    /\ lastOp = NoOp
    /\ token \in {Null, StoredToken}
    /\ user = Null
    /\ authLoading = TRUE
    /\ bootCall = NoBootCall
    /\ route \in Routes
    /\ logins = <<>>
    /\ form = InitialForm
    /\ opened = NoWindow
    /\ PagesClosed

SessionOp(name, i) == lastOp' = [op |-> name, key |-> "", req |-> i]

\* The effect of AuthProvider: read the token, call /auth/me when there is
\* one, leave Loading at once when there is none.
Bootstrap ==
    /\ bootCall.status = "none"
    /\ IF token # Null
       THEN /\ bootCall' = [status |-> "pending", res |-> Null]
            /\ UNCHANGED <<authLoading, route>>
       ELSE /\ bootCall' = [status |-> "skipped", res |-> Null]
            /\ authLoading' = FALSE
            /\ route' = Redirected(FALSE, user, route)
    /\ SessionOp("boot", 0)
    /\ KeepDirectory
    /\ UNCHANGED <<url, token, user, logins, form, opened, pageVars>>

\* .then(res => { setUser(res.data); setLoading(false) })
BootOk(u) ==
    /\ bootCall.status = "pending"
    /\ bootCall' = [status |-> "ok", res |-> u]
    /\ user' = u
    /\ authLoading' = FALSE
    /\ route' = Redirected(FALSE, u, route)
    /\ Room(FALSE, u, route')
    /\ PageRoom(FALSE, u, route')
    /\ SessionOp("bootOk", 0)
    /\ SyncPages(FALSE, u, route')
    /\ UNCHANGED <<url, token, logins, form, opened>>

\* The catch of the identity check without removeItem.
BootFail_KeepsToken ==
    /\ bootCall.status = "pending"
    /\ bootCall' = [status |-> "failed", res |-> Null]
    /\ authLoading' = FALSE
    /\ route' = Redirected(FALSE, user, route)
    /\ SessionOp("bootFail", 0)
    /\ KeepDirectory
    /\ UNCHANGED <<url, token, user, logins, form, opened, pageVars>>

\* .catch(() => { localStorage.removeItem('token'); setLoading(false) })
BootFail ==
    /\ bootCall.status = "pending"
    /\ bootCall' = [status |-> "failed", res |-> Null]
    /\ token' = Null
    /\ authLoading' = FALSE
    /\ route' = Redirected(FALSE, user, route)
    /\ SessionOp("bootFail", 0)
    /\ KeepDirectory
    /\ UNCHANGED <<url, user, logins, form, opened, pageVars>>

\* Login.handleSubmit up to its await: setError(''), setLoading(true),
\* login(email, password) posts the credentials.
SubmitLogin ==
    /\ View = "login"
    /\ ~form.loading
    /\ Len(logins) < MaxLogins
    /\ form' = [error |-> "", loading |-> TRUE]
    /\ logins' = Append(logins, NewLogin)
    /\ SessionOp("login", Len(logins) + 1)
    /\ KeepDirectory
    /\ UNCHANGED <<url, token, user, authLoading, bootCall, route, opened, pageVars>>

\* login that sets the identity but does not persist the token.
LoginOk_NoPersist(i, u) ==
    /\ logins[i].status = "pending"
    /\ user' = u
    /\ route' = Redirected(authLoading, u, "/")
    /\ logins' = OrphanLogins([logins EXCEPT
                     ![i].status = "ok",
                     ![i].data = [access_token |-> IssuedToken, user |-> u]])
    /\ Room(authLoading, u, route')
    /\ PageRoom(authLoading, u, route')
    /\ form' = InitialForm
    /\ SyncPages(authLoading, u, route')
    /\ SessionOp("loginOk", i)
    /\ UNCHANGED <<url, token, authLoading, bootCall, opened>>

\* The post of login call i returns: setItem('token', access_token),
\* setUser(user), return res.data; handleSubmit then navigates to '/', where
\* the Dashboard mounts.
LoginOk(i, u) ==
    /\ logins[i].status = "pending"
    /\ token' = IssuedToken
    /\ user' = u
    /\ route' = Redirected(authLoading, u, "/")
    /\ logins' = OrphanLogins([logins EXCEPT
                     ![i].status = "ok",
                     ![i].data = [access_token |-> IssuedToken, user |-> u]])
    /\ Room(authLoading, u, route')
    /\ PageRoom(authLoading, u, route')
    /\ form' = InitialForm
    /\ SyncPages(authLoading, u, route')
    /\ SessionOp("loginOk", i)
    /\ UNCHANGED <<url, authLoading, bootCall, opened>>

\* The post of login call i throws: login rethrows, handleSubmit sets the
\* error message and clears loading on the form that started the call.
LoginFail(i, detail) ==
    /\ logins[i].status = "pending"
    /\ logins' = [logins EXCEPT ![i].status = "failed", ![i].detail = detail]
    /\ form' = IF logins[i].formAlive
               THEN [error   |-> IF detail # "" THEN detail ELSE "Login failed",
                     loading |-> FALSE]
               ELSE form
    /\ SessionOp("loginFail", i)
    /\ KeepDirectory
    /\ UNCHANGED <<url, token, user, authLoading, bootCall, route, opened, pageVars>>

\* logout() without the removal of the persisted token.
logoutToken_Kept(t) == t

\* localStorage.removeItem('token')
logoutToken(t) == Null

\* A logout that removes the token and keeps the identity.
Logout_KeepsUser ==
    /\ View = "protected"
    /\ token' = logoutToken(token)
    /\ route' = "/login"
    /\ form' = InitialForm
    /\ SyncPages(authLoading, user, route')
    /\ SessionOp("logout", 0)
    /\ UNCHANGED <<url, user, authLoading, bootCall, logins, opened>>

\* Layout.handleLogout: logout(); navigate('/login').
Logout ==
    /\ View = "protected"
    /\ token' = logoutToken(token)
    /\ user' = Null
    /\ route' = "/login"
    /\ form' = InitialForm
    /\ SyncPages(authLoading, Null, route')
    /\ SessionOp("logout", 0)
    /\ UNCHANGED <<url, authLoading, bootCall, logins, opened>>

\* The location becomes p: the render of the new location
\* and the effects of that render belong to the step, so the page of p is
\* mounted with its first call and the page shown before is unmounted.
Navigate(p) ==
    /\ route' = Redirected(authLoading, user, p)
    /\ Room(authLoading, user, route')
    /\ form' = InitialForm
    /\ logins' = OrphanLogins(logins)
    /\ SyncPages(authLoading, user, route')
    /\ UNCHANGED <<url, token, user, authLoading, bootCall, opened>>

\* A NavLink of Layout, the browser history (back, forward) or a link
\* changes the location to any other one, also while the spinner of
\* AuthProvider is shown (BrowserRouter is outside AuthProvider).
GoTo(p) ==
    /\ bootCall.status # "none"
    /\ p # route
    /\ PageRoom(authLoading, user, Redirected(authLoading, user, p))
    /\ Navigate(p)
    /\ SessionOp("goto", 0)

\* A row of the listing is clicked: navigate(`/pharmacy/${p.id}`).
RowClick(id) ==
    /\ View = "protected"
    /\ mounted
    /\ data.data # <<>>
    /\ PageRoom(authLoading, user, DetailPath(id))
    /\ Navigate(DetailPath(id))
    /\ SessionOp("rowClick", 0)

\* The answers to a listing request that fit on one page.
OnePage(p) == {r \in ListSuccess(p) : r.total_pages = 1}

\* The ids of the rows clicked in the behaviours of the session.
RowIds == {"1003000126"}

\* The session, the navigation between the pages and the Directory's
\* requests as far as they reach them: a listing that arrived offers its
\* rows for a click.
NextAuth ==
    \/ Bootstrap
    \/ \E u \in Identities : BootOk(u)
    \/ BootFail
    \/ SubmitLogin
    \/ \E i \in 1..Len(logins) : \E u \in Identities : LoginOk(i, u)
    \/ \E i \in 1..Len(logins) : \E d \in LoginDetails : LoginFail(i, d)
    \/ Logout
    \/ \E p \in Routes : GoTo(p)
    \/ \E i \in 1..Len(requests) : \E r \in OnePage(requests[i].params) : ResolveOk(i, r)
    \/ \E id \in RowIds : RowClick(id)

SpecAuth == InitAuth /\ [][NextAuth]_vars

----------------------------------------------------------------------------
\* The api module ('./api', imported by AuthProvider and by every page) is
\* not among the sources.  Its handling of a 401/422 answer is taken from
\* the error model of the specification: the session is cleared and the
\* route guard redirects to the login page.  AuthProvider hands setUser to
\* no module (its context carries user, login and logout), so what the api
\* module can clear is the persisted token, and the identity held by
\* AuthProvider goes away when the application is loaded again at its
\* location; the effect of AuthProvider then runs on the cleared token.

\* The calls of an application that is loaded again are never answered.
Dropped(calls) ==
    [i \in 1..Len(calls) |->
        IF calls[i].status \in {"pending", "orphan"}
        THEN [calls[i] EXCEPT !.status = "dropped"]
        ELSE calls[i]]

\* The application is loaded again at its location after listing request i
\* was answered 401/422: every component is as after construction.
Reload(i) ==
    /\ requests[i].status \in {"pending", "orphan"}
    /\ user' = Null
    /\ authLoading' = TRUE
    /\ bootCall' = NoBootCall
    /\ mounted' = FALSE
    /\ filters' = InitialFilters(url)
    /\ data' = InitialData
    /\ loading' = FALSE
    /\ requests' = Dropped([requests EXCEPT ![i].status = "unauthorized"])
    /\ logins' = OrphanLogins(Dropped(logins))
    /\ form' = InitialForm
    /\ detailView' = [InitialDetail EXCEPT !.calls = Dropped(detailView.calls)]
    /\ changes' = [InitialChanges EXCEPT !.requests = Dropped(changes.requests)]
    /\ dash' = [InitialDashboard EXCEPT !.loads = Orphaned(Dropped(dash.loads)),
                                        !.triggers = Orphaned(Dropped(dash.triggers))]
    /\ SessionOp("authError", i)
    /\ UNCHANGED <<url, route, opened>>

\* A handling of 401/422 that leaves the persisted token in place.
ApiAuthError_KeepsToken(i) ==
    /\ token' = token
    /\ Reload(i)

\* A listing request is answered 401/422: the persisted token is removed and
\* the application is loaded again.
ApiAuthError(i) ==
    /\ token' = Null
    /\ Reload(i)

\* A session that starts with a persisted token.
InitApi == InitAuth /\ token = StoredToken

\* The session with the listing requests of the Directory answered 401/422.
NextApi ==
    \/ Bootstrap
    \/ \E u \in Identities : BootOk(u)
    \/ BootFail
    \/ \E p \in Routes : GoTo(p)
    \/ \E i \in 1..Len(requests) : ApiAuthError(i)

SpecApi == InitApi /\ [][NextApi]_vars

----------------------------------------------------------------------------
\* The export button of the Directory.

TrueStr == <<"t", "r", "u", "e">>

\* String(b), as URLSearchParams.set stores a boolean.
BoolStr(b) == IF b THEN TrueStr ELSE FalseStr

\* The keys exportCSV sets on its URLSearchParams.
ExportKeys(f) ==
    (IF Truthy(f.state) THEN {"state"} ELSE {}) \cup
    (IF f.is_independent \in BOOLEAN THEN {"is_independent"} ELSE {}) \cup
    (IF Truthy(f.search) THEN {"search"} ELSE {})

\* The query of /api/exports/csv.
ExportQuery(f) ==
    [k \in ExportKeys(f) |-> IF k = "is_independent" THEN BoolStr(f[k]) ELSE f[k]]

\* An export that also re-runs the listing fetch.
ExportCSV_Refetches ==
    /\ mounted
    /\ Len(requests) < MaxRequests
    /\ opened' = [open |-> TRUE, query |-> ExportQuery(filters)]
    /\ FetchData(filters)
    /\ lastOp' = [op |-> "export", key |-> "", req |-> 0]
    /\ UNCHANGED <<url, filters, data, mounted, sessionVars, pageVars>>

\* exportCSV: window.open(`/api/exports/csv?${params}`, '_blank')
ExportCSV ==
    /\ mounted
    /\ opened' = [open |-> TRUE, query |-> ExportQuery(filters)]
    /\ lastOp' = [op |-> "export", key |-> "", req |-> 0]
    /\ UNCHANGED <<url, filters, data, loading, requests, mounted, sessionVars, pageVars>>

\* The Directory opened without URL parameters, with its export button.
InitExport == Init /\ url = ToUrl({})

\* The filter form with the export button; paging and failed answers, which
\* the export neither reads nor writes, are explored under Spec.
NextExport ==
    \/ Mount
    \/ \E key \in FilterKeys : \E value \in FilterVals(key) : UpdateFilter(key, value)
    \/ \E i \in 1..Len(requests) : \E r \in ListSuccess(requests[i].params) : ResolveOk(i, r)
    \/ ExportCSV

SpecExport == InitExport /\ [][NextExport]_vars

----------------------------------------------------------------------------
\* The Directory opened from any shareable URL, up to its first answers.

AllUrls ==
    {ToUrl(a \cup b \cup c \cup d) :
        a \in Opt("page", UrlPageVals \cup {<<"-", "1">>, EmptyStr, <<"2", "x">>,
                                           <<"\t", "2">>, <<"", "2">>,
                                           <<"U+2003", "2">>, <<"U+0085", "2">>,
                                           <<"0", "x", "1", "0">>,
                                           <<"0", "x">>}),
        b \in Opt("is_independent", {FalseStr, TrueStr, <<"x">>}),
        c \in Opt("search", {<<"a">>}),
        d \in Opt("state", {CA})}

InitUrl == InitOver(AllUrls)

NextUrl ==
    \/ Mount
    \/ \E i \in 1..Len(requests) : \E r \in ListSuccess(requests[i].params) : ResolveOk(i, r)
    \/ \E i \in 1..Len(requests) : ResolveFail(i)

SpecUrl == InitUrl /\ [][NextUrl]_vars

----------------------------------------------------------------------------
\* The pages next to the Directory, each explored inside an authenticated
\* session that starts on the map and moves between the map and the page.

DirectoryClosed ==
    /\ url = ToUrl({})
    /\ filters = InitialFilters(url)
    /\ data = InitialData
    /\ loading = FALSE
    /\ requests = <<>>
    /\ mounted = FALSE
    /\ opened = NoWindow

SessionAt(r) ==
    /\ token = StoredToken
    /\ user = "admin@pharma.local"
    /\ authLoading = FALSE
    /\ bootCall = [status |-> "ok", res |-> user]
    /\ route = r
    /\ logins = <<>>
    /\ form = InitialForm

directoryVars == <<url, filters, data, loading, requests, mounted, opened>>

PageOp(name, i) == lastOp' = [op |-> name, key |-> "", req |-> i]

----------------------------------------------------------------------------
\* PharmacyDetail: the single-record view at /pharmacy/:id.

\* The record the endpoint returns for an id.
RecordOf(id) == [npi |-> id]

\* What PharmacyDetail renders: the spinner while loading, 'Pharmacy not
\* found.' when there is no record, the record otherwise.
DetailShown(d) ==
    IF d.loading THEN "spinner"
    ELSE IF d.pharmacy = NoPharmacy THEN "notfound"
    ELSE "record"

\* The route /pharmacy/:id is entered: the component mounts and its effect
\* runs.
OpenDetail(id) ==
    /\ ~detailView.open
    /\ Navigate(DetailPath(id))
    /\ PageOp("detailOpen", Len(detailView.calls) + 1)

\* The location moves to another /pharmacy/:id (browser history): the same
\* route element stays mounted, its state is kept and the effect runs again.
ChangeDetailId(id) ==
    /\ detailView.open
    /\ id # detailView.id
    /\ Navigate(DetailPath(id))
    /\ PageOp("detailId", Len(detailView.calls) + 1)

\* The page is left for the map (NavLink): the component state is discarded
\* and the answers of its calls reach no component.
CloseDetail ==
    /\ detailView.open
    /\ Navigate("/map")
    /\ PageOp("detailClose", 0)

\* .then(res => setPharmacy(res.data)).finally(() => setLoading(false))
DetailOk(i) ==
    /\ detailView.calls[i].status = "pending"
    /\ detailView' = [detailView EXCEPT
                         !.pharmacy = RecordOf(detailView.calls[i].id),
                         !.loading = FALSE,
                         !.calls[i].status = "ok"]
    /\ PageOp("detailOk", i)
    /\ UNCHANGED <<directoryVars, sessionVars, changes, dash>>

\* The ways a single-record call fails: 404, and no answer or 5xx.
DetailFailures == {"notfound", "network"}

\* .catch(console.error).finally(() => setLoading(false)), whatever the
\* failure.
DetailFail(i, why) ==
    /\ detailView.calls[i].status = "pending"
    /\ why \in DetailFailures
    /\ detailView' = [detailView EXCEPT !.loading = FALSE, !.calls[i].status = why]
    /\ PageOp(why, i)
    /\ UNCHANGED <<directoryVars, sessionVars, changes, dash>>

InitDetail ==
    /\ DirectoryClosed
    /\ SessionAt("/map")
    /\ lastOp = NoOp
    /\ PagesClosed

NextDetail ==
    \/ \E id \in DetailIds : OpenDetail(id)
    \/ \E id \in DetailIds : ChangeDetailId(id)
    \/ CloseDetail
    \/ \E i \in 1..Len(detailView.calls) : DetailOk(i)
    \/ \E i \in 1..Len(detailView.calls) : \E why \in DetailFailures : DetailFail(i, why)

SpecDetail == InitDetail /\ [][NextDetail]_vars

----------------------------------------------------------------------------
\* Changes: the change-tracking view at /changes.

\* The change-type buttons; '' is 'All'.
ChangeTypes == {"", "new", "updated", "deactivated"}

\* Bodies GET /changes can answer a request with: the page asked for, of a
\* collection of any size that has that page.
ChangesSuccess(p) ==
    {[data        |-> IF tp = 0 THEN <<>> ELSE <<p>>,
      total       |-> tp * 50,
      page        |-> p.page,
      total_pages |-> tp] :
        tp \in {t \in 0..MaxTotalPages : p.page <= MaxOf(t, 1)}}

\* The NavLink to /changes is clicked: the component mounts and its effect
\* runs.
OpenChanges ==
    /\ ~changes.open
    /\ Navigate("/changes")
    /\ PageOp("changesOpen", Len(changes.requests) + 1)

\* The page is left through the NavLink to /map: the component state is
\* discarded and the answers of its requests reach no component.
CloseChanges ==
    /\ changes.open
    /\ Navigate("/map")
    /\ PageOp("changesClose", 0)

\* A change-type button whose handler only calls setFilter(type).
SelectType_KeepsPage(c, type) == [c EXCEPT !.filter = type]

\* onClick={() => { setFilter(type); setPage(1) }}
SelectType(c, type) == [c EXCEPT !.filter = type, !.page = 1]

\* A change-type button is clicked.  The two setters are applied in one
\* render; the effect runs only if page or filter is another value than
\* before.
ClickType(type) ==
    /\ changes.open
    /\ Len(changes.requests) < MaxChangeFetches
    /\ LET c == SelectType(changes, type)
       IN  IF c.page # changes.page \/ c.filter # changes.filter
           THEN /\ changes' = ChangesFetch(c)
                /\ lastOp' = [op |-> "select", key |-> type,
                              req |-> Len(changes.requests) + 1]
           ELSE /\ changes' = changes
                /\ lastOp' = [op |-> "select", key |-> type, req |-> 0]
    /\ UNCHANGED <<directoryVars, sessionVars, detailView, dash>>

\* The pagination bar is rendered only when data.total_pages > 1.
ChangesPaginationShown == changes.data.total_pages > 1

\* disabled={page <= 1} onClick={() => setPage(p => p - 1)}
ChangesPrev ==
    /\ changes.open
    /\ Len(changes.requests) < MaxChangeFetches
    /\ ChangesPaginationShown
    /\ ~(changes.page <= 1)
    /\ changes' = ChangesFetch([changes EXCEPT !.page = changes.page - 1])
    /\ PageOp("changesPrev", Len(changes.requests) + 1)
    /\ UNCHANGED <<directoryVars, sessionVars, detailView, dash>>

\* disabled={page >= data.total_pages} onClick={() => setPage(p => p + 1)}
ChangesNext ==
    /\ changes.open
    /\ Len(changes.requests) < MaxChangeFetches
    /\ ChangesPaginationShown
    /\ ~(changes.page >= changes.data.total_pages)
    /\ changes' = ChangesFetch([changes EXCEPT !.page = changes.page + 1])
    /\ PageOp("changesNext", Len(changes.requests) + 1)
    /\ UNCHANGED <<directoryVars, sessionVars, detailView, dash>>

\* .then(res => setData(res.data)).finally(() => setLoading(false))
ChangesOk(i, r) ==
    /\ changes.requests[i].status = "pending"
    /\ r \in ChangesSuccess(changes.requests[i].params)
    /\ changes' = [changes EXCEPT !.data = r, !.loading = FALSE,
                                  !.requests[i].status = "ok"]
    /\ PageOp("changesOk", i)
    /\ UNCHANGED <<directoryVars, sessionVars, detailView, dash>>

\* .catch(console.error).finally(() => setLoading(false))
ChangesFail(i) ==
    /\ changes.requests[i].status = "pending"
    /\ changes' = [changes EXCEPT !.loading = FALSE, !.requests[i].status = "failed"]
    /\ PageOp("changesFail", i)
    /\ UNCHANGED <<directoryVars, sessionVars, detailView, dash>>

InitChanges ==
    /\ DirectoryClosed
    /\ SessionAt("/map")
    /\ lastOp = NoOp
    /\ PagesClosed

NextChanges ==
    \/ OpenChanges
    \/ CloseChanges
    \/ \E type \in ChangeTypes : ClickType(type)
    \/ ChangesPrev
    \/ ChangesNext
    \/ \E i \in 1..Len(changes.requests) :
          \E r \in ChangesSuccess(changes.requests[i].params) : ChangesOk(i, r)
    \/ \E i \in 1..Len(changes.requests) : ChangesFail(i)

SpecChanges == InitChanges /\ [][NextChanges]_vars

----------------------------------------------------------------------------
\* Dashboard: the statistics and the Run Pipeline button at /.

\* Number of pipeline triggers one behaviour posts.
MaxTriggers == 2

\* The status values GET /pipeline/status reports.
PipelineStatuses == {"never_run", "running", "completed", "failed"}

\* The NavLink to / is clicked: the component mounts and its effect starts
\* Promise.all([stats, status]).
OpenDashboard ==
    /\ ~dash.open
    /\ Navigate("/")
    /\ PageOp("dashOpen", Len(dash.loads) + 1)

\* The Dashboard is left through the NavLink to /map: its state is
\* discarded, its calls go on.
CloseDashboard ==
    /\ dash.open
    /\ Navigate("/map")
    /\ PageOp("dashClose", 0)

\* Both calls returned: setStats, setPipelineStatus, then setLoading(false).
DashLoadOk(i, st) ==
    /\ dash.loads[i].status = "pending"
    /\ st \in PipelineStatuses
    /\ dash' = IF dash.loads[i].alive
               THEN [dash EXCEPT !.stats = "stats",
                                 !.pipelineStatus = [status |-> st],
                                 !.loading = FALSE,
                                 !.loads[i].status = "ok"]
               ELSE [dash EXCEPT !.loads[i].status = "ok"]
    /\ PageOp("dashLoadOk", i)
    /\ UNCHANGED <<directoryVars, sessionVars, detailView, changes>>

\* One of the two calls failed: console.error, then setLoading(false).
DashLoadFail(i) ==
    /\ dash.loads[i].status = "pending"
    /\ dash' = IF dash.loads[i].alive
               THEN [dash EXCEPT !.loading = FALSE, !.loads[i].status = "failed"]
               ELSE [dash EXCEPT !.loads[i].status = "failed"]
    /\ PageOp("dashLoadFail", i)
    /\ UNCHANGED <<directoryVars, sessionVars, detailView, changes>>

\* disabled={triggering || pipelineStatus?.status === 'running'}
TriggerDisabled(d) == d.triggering \/ d.pipelineStatus.status = "running"

\* The Run Pipeline button is clicked: setTriggering(true), api.post.
TriggerPipeline ==
    /\ dash.open
    /\ ~dash.loading
    /\ ~TriggerDisabled(dash)
    /\ Len(dash.triggers) < MaxTriggers
    /\ dash' = [dash EXCEPT !.triggering = TRUE,
                            !.triggers = Append(dash.triggers,
                                                [status |-> "pending", alive |-> TRUE])]
    /\ PageOp("trigger", Len(dash.triggers) + 1)
    /\ UNCHANGED <<directoryVars, sessionVars, detailView, changes>>

\* The post returned: setPipelineStatus({ status: 'running' }), then
\* setTriggering(false).
TriggerOk(i) ==
    /\ dash.triggers[i].status = "pending"
    /\ dash' = IF dash.triggers[i].alive
               THEN [dash EXCEPT !.pipelineStatus = [status |-> "running"],
                                 !.triggering = FALSE,
                                 !.triggers[i].status = "ok"]
               ELSE [dash EXCEPT !.triggers[i].status = "ok"]
    /\ PageOp("triggerOk", i)
    /\ UNCHANGED <<directoryVars, sessionVars, detailView, changes>>

\* The post threw: console.error(e), then setTriggering(false).
TriggerFail(i) ==
    /\ dash.triggers[i].status = "pending"
    /\ dash' = IF dash.triggers[i].alive
               THEN [dash EXCEPT !.triggering = FALSE, !.triggers[i].status = "failed"]
               ELSE [dash EXCEPT !.triggers[i].status = "failed"]
    /\ PageOp("triggerFail", i)
    /\ UNCHANGED <<directoryVars, sessionVars, detailView, changes>>

InitDashboard ==
    /\ DirectoryClosed
    /\ SessionAt("/map")
    /\ lastOp = NoOp
    /\ PagesClosed

NextDashboard ==
    \/ OpenDashboard
    \/ CloseDashboard
    \/ \E i \in 1..Len(dash.loads) : \E st \in PipelineStatuses : DashLoadOk(i, st)
    \/ \E i \in 1..Len(dash.loads) : DashLoadFail(i)
    \/ TriggerPipeline
    \/ \E i \in 1..Len(dash.triggers) : TriggerOk(i)
    \/ \E i \in 1..Len(dash.triggers) : TriggerFail(i)

SpecDashboard == InitDashboard /\ [][NextDashboard]_vars

----------------------------------------------------------------------------
\* Vocabulary of the properties

\* The most recently issued listing request.
Latest == requests[Len(requests)]

NoPending == \A i \in 1..Len(requests) : requests[i].status # "pending"

\* This step is the arrival of the response of request i.
Arrives(i) ==
    /\ i \in 1..Len(requests)
    /\ requests[i].status = "pending"
    /\ Len(requests') = Len(requests)
    /\ requests'[i].status # "pending"

\* This step issues a listing request through operation op.
Issues(op) == Len(requests') = Len(requests) + 1 /\ lastOp'.op = op

\* The component keeps no error state and renders no error element: the
\* catch block only writes to the console.
ErrorShown == FALSE

\* C1: when an earlier request and the latest request have both succeeded,
\* the displayed ResultPage is the response of the latest request, whichever
\* arrived first.
C1_RaceSafety ==
    (/\ Len(requests) >= 2
     /\ Latest.status = "ok"
     /\ \E a \in 1..(Len(requests) - 1) : requests[a].status = "ok")
    => data = Latest.res

\* C2: the arrival of a response (success or failure) for a request that is
\* not the most recently issued one leaves the displayed ResultPage, the
\* loading flag and the error indication unchanged.
C2_StaleResponseFrame ==
    [][\A i \in 1..(Len(requests) - 1) :
          Arrives(i) => /\ data' = data
                        /\ loading' = loading
                        /\ ErrorShown' = ErrorShown]_vars

\* C3: when the latest request fails, the displayed ResultPage is unchanged,
\* loading becomes false and an error flag is set.
C3_StaleWhileError ==
    [][(Arrives(Len(requests)) /\ requests'[Len(requests)].status = "failed")
         => /\ data' = data
            /\ loading' = FALSE
            /\ ErrorShown']_vars

\* C4: for every filter field other than page and every value, updateFilter
\* applied to the current criteria yields page 1, the field set to the value
\* and the other fields unchanged.
C4_PaginationReset ==
    \A key \in FilterKeys : \A value \in FilterVals(key) :
        LET g == updateFilter(filters, key, value)
        IN  /\ g.page = Num(1)
            /\ g[key] = value
            /\ \A k \in FilterKeys \ {key} : g[k] = filters[k]

\* C4 witness: a filter change was made while the criteria were on page 2,
\* and the criteria are on page 1 after it.
C4_Witness ==
    /\ Len(requests) = 2
    /\ lastOp.op = "updateFilter"
    /\ requests[1].params.page = Num(2)
    /\ filters.page = Num(1)
    /\ Latest.params.page = Num(1)

\* C5: the criteria page is an integer >= 1 and no listing request carries a
\* page below 1.
C5_PageLowerBound ==
    /\ ~filters.page.nan
    /\ filters.page.v >= 1
    /\ \A i \in 1..Len(requests) :
          ~requests[i].params.page.nan /\ requests[i].params.page.v >= 1

\* C6: "next" changes the criteria only when the criteria page is below
\* total_pages of the last known ResultPage.
C6_NextNoOpAtEnd ==
    [][Issues("next") => /\ ~filters.page.nan
                         /\ filters.page.v < data.total_pages]_vars

\* C7: "previous" changes the criteria only when the criteria page is not 1.
C7_PrevNoOpAtFirst ==
    [][Issues("prev") => filters.page # Num(1)]_vars

\* The latest request has returned successfully, nothing is in flight, and
\* its response is the one displayed.
Settled ==
    /\ mounted
    /\ NoPending
    /\ Latest.status = "ok"
    /\ data = Latest.res

NextActs == PaginationShown /\ ~NextDisabled

\* C8: once the fetch for the criteria page p has returned with
\* total_pages = N and nothing is in flight, "next" is available exactly
\* when p < N; taking it adds exactly 1 to the criteria page and issues
\* exactly one listing request, for that page.
C8_NextStepping ==
    /\ [](Settled => (NextActs <=> JSGt(Num(data.total_pages), filters.page)))
    /\ [][(Settled /\ Issues("next"))
            => /\ filters'.page = Num(filters.page.v + 1)
               /\ requests' = Append(requests, NewRequest(filters'))
               /\ Latest'.params.page = filters'.page
               /\ Latest'.status = "pending"]_vars

\* C8 witness: page 1 of 2 was displayed, "next" moved to page 2, its fetch
\* returned, and "next" is no longer available.
C8_Witness ==
    /\ Len(requests) = 2
    /\ requests[1].status = "ok"
    /\ requests[1].params.page = Num(1)
    /\ requests[1].res.total_pages = 2
    /\ Settled
    /\ filters.page = Num(2)
    /\ data.total_pages = 2
    /\ ~NextActs

\* C9: when the free-text field of the criteria is the empty string, the
\* listing request issued for them has no `search` parameter.
C9_EmptyTextOmission ==
    (mounted /\ filters.search = EmptyStr) => "search" \notin DOMAIN Latest.params

\* C9 witness: the search box was cleared after a search for "a" was sent.
C9_Witness ==
    /\ Len(requests) = 3
    /\ lastOp.op = "updateFilter"
    /\ lastOp.key = "search"
    /\ "search" \in DOMAIN requests[2].params
    /\ filters.search = EmptyStr
    /\ "search" \notin DOMAIN Latest.params

\* C10: the `search` parameter is in the listing request only if the
\* free-text field is non-empty after trimming whitespace.
C10_TrimmedFreeText ==
    (mounted /\ "search" \in DOMAIN Latest.params) => Trim(filters.search) # EmptyStr

\* What the claims say initialize(urlParams) yields: every present valid
\* parameter's value, and the default for a missing or invalid one; a page
\* is taken as valid as soon as it parses to an integer.
ClaimedInitialPage(u) ==
    LET n == parseInt(GetOr(u, "page", <<"1">>))
    IN  IF ~n.nan THEN n ELSE Num(1)

\* C11: the shareable URL mirrors the current criteria: initialising a
\* controller from the URL yields the current criteria.
C11_UrlSynchronised == InitialFilters(url) = filters

\* C12: the initial criteria take every present valid parameter and the
\* default for a missing or invalid one; in particular an invalid page
\* yields page 1 and is_independent is true unless the parameter is 'false'.
C12_InitialDefaults ==
    (lastOp = NoOp) =>
        /\ filters.search = GetOr(url, "search", EmptyStr)
        /\ filters.state = GetOr(url, "state", EmptyStr)
        /\ filters.city = GetOr(url, "city", EmptyStr)
        /\ filters.zip = GetOr(url, "zip", EmptyStr)
        /\ filters.is_independent = GetNotFalse(url, "is_independent")
        /\ filters.page = ClaimedInitialPage(url)

\* The route guard admits no protected view for identity u.
GuardDeniesAll(u) ==
    \A p \in Routes \ {"/login"} : ViewOf(authLoading, u, p) # "protected"

\* C13: right after logout the persisted token is absent, the identity is
\* null and the route guard denies every protected view: the login page is
\* shown.
C13_LogoutClearsSession ==
    (lastOp.op = "logout") =>
        /\ token = Null
        /\ user = Null
        /\ GuardDeniesAll(user)
        /\ View = "login"

\* C13 witness: a session opened by a login has been logged out.
C13_Witness ==
    /\ lastOp.op = "logout"
    /\ \E i \in 1..Len(logins) : logins[i].status = "ok"
    /\ token = Null
    /\ user = Null

\* C14: a protected view is rendered only with an identity present and never
\* while bootstrap is outstanding; the Directory and the other child pages
\* of Layout live only inside a protected view, each on its route; a
\* redirect never stays on screen; and when the identity goes away under a
\* protected view the login page replaces it in that step.
C14_RouteGuard ==
    /\ [](View = "protected" => (user # Null /\ ~authLoading))
    /\ [](mounted => (View = "protected" /\ route = "/directory"))
    /\ [](detailView.open =>
             (View = "protected" /\ route \in DetailRoutes /\ detailView.id = IdOf(route)))
    /\ [](changes.open => (View = "protected" /\ route = "/changes"))
    /\ [](dash.open => (View = "protected" /\ route = "/"))
    /\ [](View # "redirect")
    /\ [][(View = "protected" /\ user' = Null) => View' = "login"]_vars

\* C14 witness: the Directory is open under the guard with a request in
\* flight.
C14_Witness ==
    /\ View = "protected"
    /\ mounted
    /\ user \in Identities
    /\ loading

\* C15: bootstrap leaves Loading once and for all; without a persisted token
\* it ends Anonymous without calling the identity check; with a token and a
\* successful check it ends Authenticated with the returned identity; with a
\* token and a failed check the token is cleared and it ends Anonymous.
C15_BootstrapOutcomes ==
    [][/\ (lastOp'.op = "boot" /\ lastOp.op = "init") =>
              IF token = Null
              THEN /\ bootCall'.status = "skipped"
                   /\ ~authLoading'
                   /\ user' = Null
                   /\ token' = Null
              ELSE /\ bootCall'.status = "pending"
                   /\ authLoading'
       /\ (lastOp'.op = "bootOk") =>
              /\ token # Null
              /\ token' = token
              /\ user' = bootCall'.res
              /\ user' \in Identities
              /\ ~authLoading'
       /\ (lastOp'.op = "bootFail") =>
              /\ token # Null
              /\ token' = Null
              /\ user' = Null
              /\ ~authLoading'
       /\ authLoading' => authLoading
       /\ ~authLoading => bootCall' = bootCall
       /\ authLoading' <=> bootCall'.status \in {"none", "pending"}]_vars

\* C15 witness: the identity check of a persisted token failed.
C15_Witness ==
    /\ lastOp.op = "bootFail"
    /\ bootCall.status = "failed"
    /\ token = Null
    /\ user = Null
    /\ View = "login"

\* C16: right after a login call returned {access_token, user}, the token is
\* persisted, the identity is the returned user, the route guard admits the
\* protected views and the call's result is the payload.
C16_LoginSuccess ==
    (lastOp.op = "loginOk") =>
        LET call == logins[lastOp.req]
        IN  /\ call.status = "ok"
            /\ call.data.access_token = IssuedToken
            /\ call.data.user \in Identities
            /\ token = call.data.access_token
            /\ user = call.data.user
            /\ View = "protected"

\* C16 witness: an Anonymous visitor (no persisted token at start) has
\* logged in.
C16_Witness ==
    /\ lastOp.op = "loginOk"
    /\ bootCall.status = "skipped"
    /\ token = IssuedToken
    /\ View = "protected"

\* C17: when a login call fails, the persisted token, the identity and the
\* location are as before, the call is failed with the server's detail, no
\* protected view appears, and the login form on screen shows the detail or
\* 'Login failed' and is no longer loading.
C17_LoginFailure ==
    [][(lastOp'.op = "loginFail") =>
          LET i == lastOp'.req
          IN  /\ token' = token
              /\ user' = user
              /\ route' = route
              /\ View' = View
              /\ logins'[i].status = "failed"
              /\ View' = "login" =>
                    /\ form'.error = (IF logins'[i].detail # ""
                                      THEN logins'[i].detail ELSE "Login failed")
                    /\ ~form'.loading]_vars

\* The filter parameters of the listing request for criteria f, as sent:
\* pagination left out, booleans as their strings.
ListingFilterQuery(f) ==
    [k \in ParamKeys(f) \ {"page", "per_page"} |->
        IF k = "is_independent" THEN BoolStr(f[k]) ELSE f[k]]

\* C19: the export request carries exactly the filter parameters of the
\* listing request built from the current criteria, and no pagination
\* parameter.
C19_ExportCarriesFilter ==
    (lastOp.op = "export") =>
        /\ opened.open
        /\ opened.query = ListingFilterQuery(filters)
        /\ DOMAIN opened.query \cap {"page", "per_page"} = {}

\* C20: the export action leaves the criteria, the displayed ResultPage, the
\* loading flag and the issued requests as they are.
C20_ExportStateless ==
    [][(lastOp'.op = "export") =>
          /\ filters' = filters
          /\ data' = data
          /\ loading' = loading
          /\ requests' = requests
          /\ mounted' = mounted
          /\ opened'.open]_vars

\* C20 witness: an export was made while two listing requests were in
\* flight.
C20_Witness ==
    /\ lastOp.op = "export"
    /\ opened.open
    /\ loading
    /\ Len(requests) = 2
    /\ requests[1].status = "pending"
    /\ requests[2].status = "pending"

\* The operations that change the criteria.
CriteriaOps == {"updateFilter", "prev", "next"}

\* C21: a failed fetch issues no request; every step that issues listing
\* requests issues exactly one and is either the mount, with none issued
\* before, or a change of the criteria.
C21_NoAutomaticRetry ==
    [][/\ (lastOp'.op = "fail") => Len(requests') = Len(requests)
       /\ (Len(requests') # Len(requests)) =>
              /\ Len(requests') = Len(requests) + 1
              /\ \/ lastOp'.op = "mount" /\ Len(requests) = 0
                 \/ lastOp'.op \in CriteriaOps /\ filters' # filters]_vars

\* C21 witness: the fetch of a filter change failed after the mount fetch had
\* failed, and nothing is in flight.
C21_Witness ==
    /\ Len(requests) = 2
    /\ lastOp = [op |-> "fail", key |-> "", req |-> 2]
    /\ requests[1].status = "failed"
    /\ requests[2].status = "failed"
    /\ ~loading

\* The session operations awaiting a response: the identity check of
\* bootstrap and the login calls.
InProgress ==
    (IF bootCall.status = "pending" THEN 1 ELSE 0)
    + Cardinality({i \in 1..Len(logins) : logins[i].status = "pending"})

\* C22: at most one of bootstrap and the login calls is in progress, and a
\* login or a logout begins only when none is.
C22_SingleWriter ==
    [][/\ InProgress' <= 1
       /\ (lastOp'.op \in {"login", "logout"}) => InProgress = 0]_vars

\* The single-record call made last.
LatestDetailCall == detailView.calls[Len(detailView.calls)]

\* C23: right after the single-record call of the page is answered NotFound
\* the page shows "not found", and the page shows "not found" only when its
\* call was answered NotFound.
C23_NotFoundState ==
    /\ (detailView.open /\ lastOp.op = "notfound" /\ lastOp.req = Len(detailView.calls))
          => DetailShown(detailView) = "notfound"
    /\ (detailView.open /\ DetailShown(detailView) = "notfound")
          => LatestDetailCall.status = "notfound"

\* The parameters p are those the criteria f call for: state, city and zip
\* present exactly when non-empty, is_independent and page as in f, per_page
\* 50.
ParamsOf(p, f) ==
    /\ \A k \in {"state", "city", "zip"} :
          /\ k \in DOMAIN p <=> f[k] # EmptyStr
          /\ k \in DOMAIN p => p[k] = f[k]
    /\ "is_independent" \in DOMAIN p
    /\ p.is_independent \in BOOLEAN
    /\ p.is_independent = f.is_independent
    /\ p.page = f.page
    /\ p.per_page = Num(50)

\* C24: the mount and every change of the criteria issue exactly one listing
\* request, in flight, with the parameters of the criteria as they are at
\* that moment; no step changes the parameters of a request already issued.
C24_OneFetchPerChange ==
    [][/\ ((~mounted /\ mounted') \/ filters' # filters) =>
              /\ Len(requests') = Len(requests) + 1
              /\ Latest'.status = "pending"
              /\ ParamsOf(Latest'.params, filters')
       /\ \A i \in 1..Len(requests) :
              /\ i <= Len(requests')
              /\ requests'[i].params = requests[i].params]_vars

\* C24 witness: two requests are in flight, the first issued for page 2
\* without a state, the second for state CA on page 1.
C24_Witness ==
    /\ Len(requests) = 2
    /\ requests[1].status = "pending"
    /\ requests[2].status = "pending"
    /\ requests[1].params.page = Num(2)
    /\ "state" \notin DOMAIN requests[1].params
    /\ "state" \in DOMAIN requests[2].params
    /\ requests[2].params.state = CA
    /\ requests[2].params.page = Num(1)
    /\ filters.state = CA

\* C25: every step that issues a listing request sets loading; loading goes
\* from false to true only in such a step; and once the criteria stop
\* changing and every request is answered, loading is false for good.
C25_LoadingSettles ==
    /\ [][(Len(requests') > Len(requests)) => loading']_vars
    /\ [][(~loading /\ loading') => Len(requests') > Len(requests)]_vars
    /\ (loading ~> ~loading)
    /\ <>[](NoPending /\ ~loading)

\* C25 witness: three requests were issued, the answer of the first came
\* last, and loading is false with nothing in flight.
C25_Witness ==
    /\ Len(requests) = 3
    /\ NoPending
    /\ lastOp.req = 1
    /\ lastOp.op \in {"ok", "fail"}
    /\ ~loading

\* C26: once bootstrap has left Loading the persisted token is present
\* exactly when the identity is non-null.
C26_TokenIdentityAgreement ==
    ~authLoading => (token # Null <=> user # Null)

\* C26 witness: a visitor whose stored token was rejected logged in, failed
\* a second login and logged out: token and identity are both absent again.
C26_Witness ==
    /\ bootCall.status = "failed"
    /\ Len(logins) = 2
    /\ logins[1].status = "ok"
    /\ logins[2].status = "failed"
    /\ lastOp.op = "logout"
    /\ token = Null
    /\ user = Null

\* The /changes request made last.
LatestChangesRequest == changes.requests[Len(changes.requests)]

\* This step issues exactly one /changes request, in flight, for page 1 and
\* the change type `type`, with change_type left out for 'All'.
IssuesForType(type) ==
    /\ Len(changes'.requests) = Len(changes.requests) + 1
    /\ LatestChangesRequest'.status = "pending"
    /\ LatestChangesRequest'.params.page = 1
    /\ LatestChangesRequest'.params.per_page = 50
    /\ "change_type" \in DOMAIN LatestChangesRequest'.params <=> type # ""
    /\ type # "" => LatestChangesRequest'.params.change_type = type

\* C27 as stated: every click on a change-type button sets the page to 1 and
\* issues a single fetch with page 1 and that type; the page is always >= 1.
C27_ChangesPagination ==
    /\ [](changes.page >= 1)
    /\ [][(lastOp'.op = "select") =>
              /\ changes'.page = 1
              /\ changes'.filter = lastOp'.key
              /\ IssuesForType(lastOp'.key)]_vars

\* C27 amended: a click on a change-type button sets the page to 1 and the
\* type in one step; it issues a single fetch with page 1 and that type when
\* the type or the page is thereby changed, and no fetch when the type
\* clicked is the current one on page 1; the page is always >= 1.
C27_ChangesPaginationAmended ==
    /\ [](changes.page >= 1)
    /\ [][(lastOp'.op = "select") =>
              /\ changes'.page = 1
              /\ changes'.filter = lastOp'.key
              /\ IF changes.filter # lastOp'.key \/ changes.page # 1
                 THEN IssuesForType(lastOp'.key)
                 ELSE changes' = changes]_vars

\* C27 witness: on page 2 of 'All' the type 'new' was selected; the view is
\* on page 1 with the fetch for 'new' in flight.
C27_Witness ==
    /\ Len(changes.requests) = 3
    /\ changes.requests[2].params.page = 2
    /\ "change_type" \notin DOMAIN changes.requests[2].params
    /\ lastOp = [op |-> "select", key |-> "new", req |-> 3]
    /\ changes.page = 1
    /\ changes.filter = "new"
    /\ LatestChangesRequest.params.change_type = "new"
    /\ LatestChangesRequest.status = "pending"

\* The trigger requests awaiting their response.
TriggersInFlight == {i \in 1..Len(dash.triggers) : dash.triggers[i].status = "pending"}

\* C28: at most one trigger request is in flight; a trigger is issued only
\* when none is in flight and the known status is not 'running'; a
\* successful trigger sets the status to 'running', a failed one leaves it
\* unchanged, and either sets triggering to false, on the Dashboard that
\* issued it.
C28_TriggerSingleFlight ==
    /\ [](Cardinality(TriggersInFlight) <= 1)
    /\ [][/\ (lastOp'.op = "trigger") =>
                 /\ TriggersInFlight = {}
                 /\ dash.pipelineStatus.status # "running"
          /\ (lastOp'.op = "triggerOk" /\ dash.triggers[lastOp'.req].alive) =>
                 /\ dash'.pipelineStatus.status = "running"
                 /\ ~dash'.triggering
          /\ (lastOp'.op = "triggerFail" /\ dash.triggers[lastOp'.req].alive) =>
                 /\ dash'.pipelineStatus = dash.pipelineStatus
                 /\ ~dash'.triggering]_vars

====
